---- MODULE Spec2Model ----
(***************************************************************************)
(* Storage accounting of the file management API                          *)
(* (src/app/api/v1/files/services.py, routes.py, models.py) and its        *)
(* notification service (src/app/api/v1/notifications).                    *)
(*                                                                         *)
(* The database holds two tables: files and storage.  Every HTTP request   *)
(* runs its service coroutine on its own AsyncSession; coroutines of       *)
(* different requests interleave at every await that reaches the database  *)
(* or object storage.  One action of the model is the code between two     *)
(* such awaits together with the statement awaited.  A commit makes the    *)
(* session's pending INSERT/UPDATE/DELETE visible at once; a read sees     *)
(* the committed tables.  An ORM object loaded by a request keeps the      *)
(* column values it was loaded with (the request record's s_used,          *)
(* s_total, f_size ...): `storage.used_space += n` followed by commit      *)
(* therefore writes the absolute value loaded + n.                         *)
(*                                                                         *)
(* Byte counts are in bytes, as in the code.                               *)
(*                                                                         *)
(* Spec is the file service called by one user; SpecOwn the same service   *)
(* called by two users; SpecUpload the upload route; SpecAccount the lazy  *)
(* creation of the storage account; SpecNotif the notification service;    *)
(* SpecObjects the uploads and deletions with the object store; SpecQuota  *)
(* creations and deletions alone; SpecActivity the recent-activity list.   *)
(***************************************************************************)
EXTENDS Integers, FiniteSets, Sequences, TLC

\* ---------------------------------------------------------------- constants

MB == 1024 * 1024
DEFAULT_STORAGE_LIMIT == 100 * MB

\* ------------------------------------------------------------------- bounds

\* Requests served in one behaviour.
MaxOps == 4

\* The sessions that serve requests at the same time.
Slots == {1, 2}
Users == {"u1"}
Names == {"a", "b"}
\* file_size values of the uploads: 80 MB + 20 MB fills the default quota
\* exactly, 80 MB + 80 MB overflows it.
Sizes == {20 * MB, 80 * MB}
\* StorageUpdate bodies: each field is an optional int without any validation
\* (the empty set is None).
TotalInputs == {{}, {50 * MB}}
UsedInputs == {{}, {0 - 20 * MB}}

Nil == 0

VARIABLES
    files,      \* rows of table files
    storage,    \* rows of table storage
    req,        \* per slot: the request being served, its loaded objects
    nops,       \* requests started so far; also the source of fresh ids
    adjusted,   \* history: update_storage has written a storage row
    charged,    \* history: per file id, what its create_file found and wrote
    notifications,            \* rows of table notifications
    notification_recipients,  \* rows of the association table
    nreq,       \* per slot: the notification request being served
    sent,       \* events handed to the connection manager
    objects,    \* keys of the objects in object storage
    stamps,     \* per file id: created_at, updated_at of its row
    clock,      \* datetime.now()
    activity    \* the last answer of get_recent_activity

\* The tables and requests of the notification service.
svars == <<notifications, notification_recipients, nreq, sent>>

\* Object storage and the timestamps of the file rows.
ovars == <<objects, stamps, clock, activity>>

\* What the file service leaves alone when neither objects nor timestamps
\* are looked at.
nvars == <<svars, ovars>>

vars == <<files, storage, req, nops, adjusted, charged, nvars>>

\* ------------------------------------------------------------------ helpers

Max(a, b) == IF a >= b THEN a ELSE b

IdleReq ==
    [op |-> "none", pc |-> "idle", user |-> "u1", id |-> Nil,
     name |-> "a", size |-> 0, fid |-> Nil, f_size |-> 0, f_name |-> "a",
     f_url |-> <<>>,
     sid |-> Nil, s_used |-> 0, s_total |-> 0, s_ver |-> 0,
     n_total |-> {}, n_used |-> {}, s3 |-> "none", result |-> "none"]

\* A new request is served in the first slot that is not busy (a slot whose
\* request has returned is reused).
Busy(r) == req[r].pc \notin {"idle", "done"}
Free(r) == ~ Busy(r) /\ (\A q \in Slots : q < r => Busy(q)) /\ nops < MaxOps

\* The request returns.  What stays in the slot until it is reused is the
\* operation, its result and what delete_file loaded and was answered.
Finish(r, res) ==
    [IdleReq EXCEPT !.op = req[r].op, !.pc = "done", !.result = res,
                    !.f_size = req[r].f_size, !.s_used = req[r].s_used,
                    !.s3 = req[r].s3]

\* select(Storage).where(Storage.user_id == user_id)
\* A get_user_storage without its filter on Storage.user_id.
StorageRows_AnyUser(u) == storage

StorageRows(u) == {s \in storage : s.user_id = u}

\* Mutant of FileRows: the owner is not part of the query.
FileRows_AnyOwner(fid, u) == {f \in files : f.id = fid}

\* select(File).where(File.id == file_id, File.user_id == user_id)
FileRows(fid, u) == {f \in files : f.id = fid /\ f.user_id = u}

\* Mutant of NameTaken: the table has no unique constraint.
NameTaken_Never(u, nm, except) == FALSE

\* UniqueConstraint("user_id", "file_name"): is the name taken by another row?
NameTaken(u, nm, except) ==
    \E f \in files : f.user_id = u /\ f.file_name = nm /\ f.id # except

\* get_file: the file, or none (the empty set)
get_file(fid, u) == FileRows(fid, u)

\* get_files: the caller's files
get_files(u) == {f \in files : f.user_id = u}

\* A slot that serves no notification request.
IdleNReq ==
    [op |-> "none", pc |-> "idle", user |-> "u1", nid |-> Nil,
     user_ids |-> <<>>, is_read |-> FALSE, rows |-> <<>>,
     result |-> "none", task |-> "none"]

Init ==
    /\ files = {}
    /\ storage = {}
    /\ req = [r \in Slots |-> IdleReq]
    /\ nops = 0
    /\ adjusted = FALSE
    /\ charged = {}
    /\ notifications = {}
    /\ notification_recipients = {}
    /\ nreq = [r \in Slots |-> IdleNReq]
    /\ sent = {}
    /\ objects = {}
    /\ stamps = {}
    /\ clock = 0
    /\ activity = <<>>

\* ---------------------------------------------------------------- create_file

\* The UPDATE a commit sends for a loaded Storage object: the columns whose
\* value differs from the loaded one are set to the new absolute value.
\* (ver is history: the number of writes to the row.)
\* used and total are sets: empty when the column is not part of the UPDATE.
WriteStorage(sid, used, total) ==
    {IF s.id = sid /\ (used \cup total) # {}
        THEN [s EXCEPT
                !.used_space = IF used = {} THEN @ ELSE CHOOSE v \in used : TRUE,
                !.total_space = IF total = {} THEN @ ELSE CHOOSE v \in total : TRUE,
                !.ver = @ + 1]
        ELSE s : s \in storage}

\* The columns of an UPDATE: a new value equal to the loaded one is no change.
Changed(new, loaded) == IF new = loaded THEN {} ELSE {new}

\* Mutant of NotEnoughSpace: an overdrawn account is not checked.
NotEnoughSpace_WithinTotal(used, size, total) ==
    used <= total /\ used + size > total

\* services.py 29-30: the capacity check on the loaded Storage object.
NotEnoughSpace(used, size, total) == used + size > total

\* services.py 22-30 with a Storage row found (or several: scalar_one_or_none
\* raises MultipleResultsFound), 22-23 with none found.
CreateFile_Begin(r, u, nm, sz) ==
    /\ Free(r)
    /\ nops' = nops + 1
    /\ LET rows == StorageRows(u)
           new == [IdleReq EXCEPT !.op = "create", !.user = u,
                                  !.id = nops + 1, !.name = nm, !.size = sz]
       IN  req' = [req EXCEPT ![r] =
             IF rows = {} THEN [new EXCEPT !.pc = "c_mkstorage"]
             ELSE IF Cardinality(rows) > 1
                  THEN [new EXCEPT !.pc = "done", !.result = "error"]
             ELSE LET s == CHOOSE x \in rows : TRUE
                  IN IF NotEnoughSpace(s.used_space, sz, s.total_space)
                     THEN [new EXCEPT !.pc = "done", !.result = "insufficient"]
                     ELSE [new EXCEPT !.pc = "c_insert", !.sid = s.id,
                                      !.s_used = s.used_space,
                                      !.s_total = s.total_space,
                                      !.s_ver = s.ver]]
    /\ UNCHANGED <<files, storage, adjusted, charged>>

\* services.py 24-30: create_storage (161-173) commits the default row, then
\* the capacity check runs on it.
CreateFile_MkStorage(r) ==
    /\ req[r].pc = "c_mkstorage"
    /\ storage' = storage \cup
          {[id |-> req[r].id, user_id |-> req[r].user,
            total_space |-> DEFAULT_STORAGE_LIMIT, used_space |-> 0,
            ver |-> 0]}
    /\ req' = [req EXCEPT ![r] =
          IF NotEnoughSpace(0, req[r].size, DEFAULT_STORAGE_LIMIT)
          THEN Finish(r, "insufficient")
          ELSE [@ EXCEPT !.pc = "c_insert", !.sid = req[r].id,
                         !.s_used = 0, !.s_total = DEFAULT_STORAGE_LIMIT,
                         !.s_ver = 0]]
    /\ UNCHANGED <<files, nops, adjusted, charged>>

\* Mutant of CreateFile_Insert: the quota is debited before the INSERT and the
\* debit is not taken back when the INSERT is rejected.
CreateFile_Insert_DebitFirst(r) ==
    /\ req[r].pc = "c_insert"
    /\ storage' = WriteStorage(req[r].sid, {req[r].s_used + req[r].size}, {})
    /\ IF NameTaken(req[r].user, req[r].name, Nil)
       THEN /\ req' = [req EXCEPT ![r] = Finish(r, "duplicate")]
            /\ UNCHANGED files
       ELSE /\ files' = files \cup
                  {[id |-> req[r].id, user_id |-> req[r].user,
                    file_name |-> req[r].name, file_size |-> req[r].size,
                    file_url |-> <<req[r].user, req[r].id, req[r].name>>]}
            /\ req' = [req EXCEPT ![r].pc = "c_refresh"]
    /\ UNCHANGED <<nops, adjusted, charged>>

\* services.py 33-43 and 52-54: INSERT the file and commit; the unique
\* constraint of models.py 55 raises IntegrityError -> rollback, 409.
CreateFile_Insert(r) ==
    /\ req[r].pc = "c_insert"
    /\ IF NameTaken(req[r].user, req[r].name, Nil)
       THEN /\ req' = [req EXCEPT ![r] = Finish(r, "duplicate")]
            /\ UNCHANGED files
       ELSE /\ files' = files \cup
                  {[id |-> req[r].id, user_id |-> req[r].user,
                    file_name |-> req[r].name, file_size |-> req[r].size,
                    file_url |-> <<req[r].user, req[r].id, req[r].name>>]}
            /\ req' = [req EXCEPT ![r].pc = "c_refresh"]
    /\ UNCHANGED <<storage, nops, adjusted, charged>>

\* services.py 44: refresh re-reads the row just inserted; it raises when the
\* row is gone (the exception is not an IntegrityError and propagates).
CreateFile_Refresh(r) ==
    /\ req[r].pc = "c_refresh"
    /\ req' = [req EXCEPT ![r] =
          IF \E f \in files : f.id = req[r].id
          THEN [@ EXCEPT !.pc = "c_update"]
          ELSE Finish(r, "error")]
    /\ UNCHANGED <<files, storage, nops, adjusted, charged>>

\* Mutant of Charged: the size is added twice.
Charged_Twice(used, size) == used + size + size

\* services.py 47: storage.used_space += file_data.file_size
Charged(used, size) == used + size

\* services.py 46-51: storage.used_space += file_size on the object loaded at
\* line 22 (or created at line 26), second commit.
CreateFile_Update(r) ==
    /\ req[r].pc = "c_update"
    /\ storage' = WriteStorage(req[r].sid,
                     Changed(Charged(req[r].s_used, req[r].size), req[r].s_used),
                     {})
    /\ charged' = charged \cup
          {[fid |-> req[r].id, sid |-> req[r].sid, base |-> req[r].s_used,
            ver |-> req[r].s_ver + 1] :
             s \in {x \in storage : x.id = req[r].sid /\ x.ver = req[r].s_ver}}
    /\ req' = [req EXCEPT ![r] = Finish(r, "ok")]
    /\ UNCHANGED <<files, nops, adjusted>>

\* ---------------------------------------------------------------- delete_file

\* services.py 124-134: load the caller's file; none -> return False.
DeleteFile_Begin(r, u, fid) ==
    /\ Free(r)
    /\ nops' = nops + 1
    /\ LET rows == FileRows(fid, u)
           new == [IdleReq EXCEPT !.op = "delete", !.user = u, !.fid = fid]
       IN  req' = [req EXCEPT ![r] =
             IF rows = {}
             THEN [new EXCEPT !.pc = "done", !.result = "notfound"]
             ELSE [new EXCEPT !.pc = "d_s3",
                              !.f_size = (CHOOSE f \in rows : TRUE).file_size,
                              !.f_url = (CHOOSE f \in rows : TRUE).file_url]]
    /\ UNCHANGED <<files, storage, adjusted, charged>>

\* Mutant of DeleteFile_S3: the answer of the object store is not looked at.
DeleteFile_S3_IgnoreFailure(r) ==
    /\ req[r].pc = "d_s3"
    /\ \E success \in BOOLEAN :
          req' = [req EXCEPT ![r] =
            [@ EXCEPT !.pc = "d_storage",
                      !.s3 = IF success THEN "deleted" ELSE "failed"]]
    /\ UNCHANGED <<files, storage, nops, adjusted, charged>>

\* services.py 136-139: the object store answers success or failure;
\* failure -> HTTPException 500 before anything is written.
DeleteFile_S3(r) ==
    /\ req[r].pc = "d_s3"
    /\ \E success \in BOOLEAN :
          req' = [req EXCEPT ![r] =
            IF success THEN [@ EXCEPT !.pc = "d_storage", !.s3 = "deleted"]
            ELSE [Finish(r, "storage_error") EXCEPT !.s3 = "failed"]]
    /\ UNCHANGED <<files, storage, nops, adjusted, charged>>

\* Mutant of Released: the floor at zero is missing.
Released_NoFloor(used, size) == used - size

\* services.py 144: the released amount is floored at zero.
Released(used, size) == Max(0, used - size)

\* services.py 142-145: load the Storage row (if any) and set its used_space.
DeleteFile_GetStorage(r) ==
    /\ req[r].pc = "d_storage"
    /\ LET rows == StorageRows(req[r].user)
       IN  req' = [req EXCEPT ![r] =
             IF rows = {} THEN [@ EXCEPT !.pc = "d_commit", !.sid = Nil]
             ELSE IF Cardinality(rows) > 1 THEN Finish(r, "error")
             ELSE LET s == CHOOSE x \in rows : TRUE
                  IN [@ EXCEPT !.pc = "d_commit", !.sid = s.id,
                               !.s_used = s.used_space,
                               !.s_total = s.total_space, !.s_ver = s.ver]]
    /\ UNCHANGED <<files, storage, nops, adjusted, charged>>

\* services.py 148-151: one commit carries the UPDATE of storage and the
\* DELETE of the file (a DELETE that matches no row is only a warning).
DeleteFile_Commit(r) ==
    /\ req[r].pc = "d_commit"
    /\ storage' = WriteStorage(req[r].sid,
                     Changed(Released(req[r].s_used, req[r].f_size), req[r].s_used),
                     {})
    /\ files' = {f \in files : f.id # req[r].fid}
    /\ charged' = {c \in charged : c.fid # req[r].fid}
    /\ req' = [req EXCEPT ![r] = Finish(r, "ok")]
    /\ UNCHANGED <<nops, adjusted>>

\* ---------------------------------------------------------------- update_file

\* services.py 102-110: load the caller's file, set file_name when one is given
\* (nm is a set: empty for None).
UpdateFile_Begin(r, u, fid, nm) ==
    /\ Free(r)
    /\ nops' = nops + 1
    /\ LET rows == FileRows(fid, u)
           new == [IdleReq EXCEPT !.op = "rename", !.user = u, !.fid = fid]
       IN  req' = [req EXCEPT ![r] =
             IF rows = {}
             THEN [new EXCEPT !.pc = "done", !.result = "notfound"]
             ELSE LET f == CHOOSE x \in rows : TRUE
                  IN [new EXCEPT !.pc = "u_commit",
                        !.name = IF nm = {} THEN f.file_name
                                 ELSE CHOOSE v \in nm : TRUE,
                        !.f_name = f.file_name]]
    /\ UNCHANGED <<files, storage, adjusted, charged>>

\* Mutant of UpdateFile_Commit: the rename also resets the size of the file.
UpdateFile_Commit_ResetsSize(r) ==
    /\ req[r].pc = "u_commit"
    /\ IF NameTaken(req[r].user, req[r].name, req[r].fid)
       THEN /\ req' = [req EXCEPT ![r] = Finish(r, "duplicate")]
            /\ UNCHANGED files
       ELSE /\ files' = {IF f.id = req[r].fid
                            THEN [f EXCEPT !.file_name = req[r].name,
                                           !.file_size = 0]
                            ELSE f : f \in files}
            /\ req' = [req EXCEPT ![r].pc = "u_refresh"]
    /\ UNCHANGED <<storage, nops, adjusted, charged>>

\* services.py 112-119: commit.  No UPDATE is sent when the name did not
\* change; an UPDATE that matches no row raises StaleDataError (propagates);
\* the unique constraint raises IntegrityError -> rollback, 409.
UpdateFile_Commit(r) ==
    /\ req[r].pc = "u_commit"
    /\ IF req[r].name = req[r].f_name
       THEN /\ req' = [req EXCEPT ![r].pc = "u_refresh"]
            /\ UNCHANGED files
       ELSE IF ~ \E f \in files : f.id = req[r].fid
       THEN /\ req' = [req EXCEPT ![r] = Finish(r, "error")]
            /\ UNCHANGED files
       ELSE IF NameTaken(req[r].user, req[r].name, req[r].fid)
       THEN /\ req' = [req EXCEPT ![r] = Finish(r, "duplicate")]
            /\ UNCHANGED files
       ELSE /\ files' = {IF f.id = req[r].fid
                            THEN [f EXCEPT !.file_name = req[r].name]
                            ELSE f : f \in files}
            /\ req' = [req EXCEPT ![r].pc = "u_refresh"]
    /\ UNCHANGED <<storage, nops, adjusted, charged>>

\* services.py 115-116: refresh raises when the row is gone.
UpdateFile_Refresh(r) ==
    /\ req[r].pc = "u_refresh"
    /\ req' = [req EXCEPT ![r] =
          IF \E f \in files : f.id = req[r].fid
          THEN Finish(r, "ok") ELSE Finish(r, "error")]
    /\ UNCHANGED <<files, storage, nops, adjusted, charged>>

\* ------------------------------------------------------------- update_storage

\* services.py 180-191: load the row, set the fields that are given.
UpdateStorage_Begin(r, u, nt, nu) ==
    /\ Free(r)
    /\ nops' = nops + 1
    /\ LET rows == StorageRows(u)
           new == [IdleReq EXCEPT !.op = "storage", !.user = u]
       IN  req' = [req EXCEPT ![r] =
             IF rows = {}
             THEN [new EXCEPT !.pc = "done", !.result = "notfound"]
             ELSE IF Cardinality(rows) > 1
             THEN [new EXCEPT !.pc = "done", !.result = "error"]
             ELSE LET s == CHOOSE x \in rows : TRUE
                  IN [new EXCEPT !.pc = "s_commit", !.sid = s.id,
                        !.s_used = s.used_space, !.s_total = s.total_space,
                        !.s_ver = s.ver, !.n_total = nt, !.n_used = nu]]
    /\ UNCHANGED <<files, storage, adjusted, charged>>

\* services.py 193-197: commit the changed columns, refresh, return the row.
UpdateStorage_Commit(r) ==
    /\ req[r].pc = "s_commit"
    /\ LET used == {v \in req[r].n_used : v # req[r].s_used}
           total == {v \in req[r].n_total : v # req[r].s_total}
       IN  /\ storage' = WriteStorage(req[r].sid, used, total)
           /\ adjusted' = (adjusted \/ (used \cup total) # {})
    /\ req' = [req EXCEPT ![r] = Finish(r, "ok")]
    /\ UNCHANGED <<files, nops, charged>>

\* ------------------------------------------------------------ specification

\* File ids a request can name: the id of a row of table files, or an id that
\* names no row (Nil stands for every such id: they all select nothing).
FileIds == {f.id : f \in files} \cup {Nil}

Next ==
    \/ \E r \in Slots, u \in Users, nm \in Names, sz \in Sizes :
          CreateFile_Begin(r, u, nm, sz) /\ UNCHANGED nvars
    \/ \E r \in Slots : CreateFile_MkStorage(r) /\ UNCHANGED nvars
    \/ \E r \in Slots : CreateFile_Insert(r) /\ UNCHANGED nvars
    \/ \E r \in Slots : CreateFile_Refresh(r) /\ UNCHANGED nvars
    \/ \E r \in Slots : CreateFile_Update(r) /\ UNCHANGED nvars
    \/ \E r \in Slots, u \in Users, fid \in FileIds :
          DeleteFile_Begin(r, u, fid) /\ UNCHANGED nvars
    \/ \E r \in Slots : DeleteFile_S3(r) /\ UNCHANGED nvars
    \/ \E r \in Slots : DeleteFile_GetStorage(r) /\ UNCHANGED nvars
    \/ \E r \in Slots : DeleteFile_Commit(r) /\ UNCHANGED nvars
    \/ \E r \in Slots, u \in Users, fid \in FileIds, nm \in {{}} \cup {{n} : n \in Names} :
          UpdateFile_Begin(r, u, fid, nm) /\ UNCHANGED nvars
    \/ \E r \in Slots : UpdateFile_Commit(r) /\ UNCHANGED nvars
    \/ \E r \in Slots : UpdateFile_Refresh(r) /\ UNCHANGED nvars
    \/ \E r \in Slots, u \in Users, nt \in TotalInputs, nu \in UsedInputs :
          UpdateStorage_Begin(r, u, nt, nu) /\ UNCHANGED nvars
    \/ \E r \in Slots : UpdateStorage_Commit(r) /\ UNCHANGED nvars

Spec == Init /\ [][Next]_vars

\* ------------------------------------------------- two callers, one file store

\* Requests served in one behaviour of SpecOwn.
MaxOwnOps == 3

\* The authenticated callers (get_current_user) of SpecOwn.
Callers == {"u1", "u2"}

\* The file routes called by two users: uploads of 20 MB files named "a",
\* deletions and renames (to "b", or with no name given) of any file id, and
\* updates of the caller's own storage.
NextOwn ==
    \/ \E r \in Slots, u \in Callers :
          nops < MaxOwnOps /\ CreateFile_Begin(r, u, "a", 20 * MB)
             /\ UNCHANGED nvars
    \/ \E r \in Slots : CreateFile_MkStorage(r) /\ UNCHANGED nvars
    \/ \E r \in Slots : CreateFile_Insert(r) /\ UNCHANGED nvars
    \/ \E r \in Slots : CreateFile_Refresh(r) /\ UNCHANGED nvars
    \/ \E r \in Slots : CreateFile_Update(r) /\ UNCHANGED nvars
    \/ \E r \in Slots, u \in Callers, fid \in FileIds :
          nops < MaxOwnOps /\ DeleteFile_Begin(r, u, fid) /\ UNCHANGED nvars
    \/ \E r \in Slots : DeleteFile_S3(r) /\ UNCHANGED nvars
    \/ \E r \in Slots : DeleteFile_GetStorage(r) /\ UNCHANGED nvars
    \/ \E r \in Slots : DeleteFile_Commit(r) /\ UNCHANGED nvars
    \/ \E r \in Slots, u \in Callers, fid \in FileIds, nm \in {{}, {"b"}} :
          nops < MaxOwnOps /\ UpdateFile_Begin(r, u, fid, nm)
             /\ UNCHANGED nvars
    \/ \E r \in Slots : UpdateFile_Commit(r) /\ UNCHANGED nvars
    \/ \E r \in Slots : UpdateFile_Refresh(r) /\ UNCHANGED nvars
    \/ \E r \in Slots, u \in Callers, nt \in TotalInputs, nu \in UsedInputs :
          nops < MaxOwnOps /\ UpdateStorage_Begin(r, u, nt, nu)
             /\ UNCHANGED nvars
    \/ \E r \in Slots : UpdateStorage_Commit(r) /\ UNCHANGED nvars

SpecOwn == Init /\ [][NextOwn]_vars

\* --------------------------------------------------------- the upload route

\* routes.py 46-48: the positional arguments of the call
\* upload_and_create_file(db, file, current_user.id, file_type, replace, key).
UploadCallArgs == 6

\* services.py 209-215: the parameters of upload_and_create_file
\* (db, file, user_id, file_type, replace).
UploadParams == 5

\* Python binds positional arguments to parameters; more arguments than
\* parameters raise TypeError before the body of the function is entered.
Binds(nargs, nparams) == nargs <= nparams

\* str(e) of that TypeError.
TooManyArguments ==
    "upload_and_create_file() takes from 4 to 5 positional arguments but 6 were given"

\* routes.py 55-56: except Exception as e: HTTPException(500, detail=str(e)).
RouteError(e) == "500 " \o e

\* The file name of an upload without one (`not file.filename`).
NoName == ""

\* routes.py 38-39: an upload without a file name is answered 400 before the
\* try block; any other upload goes on to the service call.
UploadFile_Begin(r, u, fn, sz) ==
    /\ Free(r)
    /\ nops' = nops + 1
    /\ req' = [req EXCEPT ![r] =
          [IdleReq EXCEPT !.op = "upload", !.user = u, !.name = fn,
                          !.size = sz,
                          !.pc = IF fn = NoName THEN "done" ELSE "up_call",
                          !.result = IF fn = NoName THEN "400 Invalid file"
                                     ELSE "none"]]
    /\ UNCHANGED <<files, storage, adjusted, charged>>

\* routes.py 46-56: the call of upload_and_create_file with one argument too
\* many raises TypeError; the except clause answers 500.  Nothing is sent to
\* the object store and create_file is not reached.
UploadFile_Call(r) ==
    /\ req[r].pc = "up_call"
    /\ ~ Binds(UploadCallArgs, UploadParams)
    /\ req' = [req EXCEPT ![r] =
          [@ EXCEPT !.pc = "done", !.result = RouteError(TooManyArguments)]]
    /\ UNCHANGED <<files, storage, nops, adjusted, charged>>

\* The tables when the uploads start: empty, or as create_file leaves them
\* after recording an 80 MB file "a" on a new default account.
InitUpload ==
    /\ \E full \in BOOLEAN :
          /\ files = IF full
                THEN {[id |-> 1, user_id |-> "u1", file_name |-> "a",
                       file_size |-> 80 * MB, file_url |-> <<"u1", 1, "a">>]}
                ELSE {}
          /\ storage = IF full
                THEN {[id |-> 1, user_id |-> "u1",
                       total_space |-> DEFAULT_STORAGE_LIMIT,
                       used_space |-> 80 * MB, ver |-> 1]}
                ELSE {}
          /\ nops = IF full THEN 1 ELSE 0
          /\ charged = IF full
                THEN {[fid |-> 1, sid |-> 1, base |-> 0, ver |-> 1]}
                ELSE {}
    /\ req = [r \in Slots |-> IdleReq]
    /\ adjusted = FALSE
    /\ notifications = {}
    /\ notification_recipients = {}
    /\ nreq = [r \in Slots |-> IdleNReq]
    /\ sent = {}
    /\ objects = IF files = {} THEN {} ELSE {<<"u1", 1, "a">>}
    /\ stamps = {}
    /\ clock = 0
    /\ activity = <<>>

NextUpload ==
    \/ \E r \in Slots, u \in Users, fn \in Names \cup {NoName}, sz \in Sizes :
          UploadFile_Begin(r, u, fn, sz) /\ UNCHANGED nvars
    \/ \E r \in Slots : UploadFile_Call(r) /\ UNCHANGED nvars

SpecUpload == InitUpload /\ [][NextUpload]_vars

\* ------------------------------------------------------------ notifications

\* Requests served in one behaviour of SpecNotif.
MaxNotifOps == 4

\* The rows of table users, and a user id that names no row.
KnownUsers == {"u1", "u2"}
UnknownUser == "ux"

\* user_ids of a create_notification request: none given, one recipient, two
\* recipients, a repeated id, an id that names no user.
UserIdLists ==
    {<<>>, <<"u1">>, <<"u1", "u2">>, <<"u1", "u1">>, <<"u2", UnknownUser>>}

\* The variables of the file store.
fvars == <<files, storage, req, adjusted, charged, ovars>>

Range(seq) == {seq[i] : i \in 1 .. Len(seq)}

NBusy(r) == nreq[r].pc \notin {"idle", "done"}
NFree(r) ==
    ~ NBusy(r) /\ (\A q \in Slots : q < r => NBusy(q)) /\ nops < MaxNotifOps

\* Mutant of LinkRows: the user is not part of the query.
LinkRows_AnyUser(nid, u) ==
    {l \in notification_recipients : l.notification_id = nid}

\* select(notification_recipients).filter(notification_id == .., user_id == ..)
LinkRows(nid, u) ==
    {l \in notification_recipients : l.notification_id = nid /\ l.user_id = u}

\* The rows of the association table for one notification.
LinksOf(nid) == {l \in notification_recipients : l.notification_id = nid}

\* routes.py 83-92: without user_ids the recipients are all users.
CreateNotification_Begin(r, ids) ==
    /\ NFree(r)
    /\ nops' = nops + 1
    /\ nreq' = [nreq EXCEPT ![r] =
          [IdleNReq EXCEPT !.op = "send", !.pc = "n_store",
                           !.user_ids = IF ids = <<>> THEN <<"u1", "u2">>
                                        ELSE ids]]
    /\ UNCHANGED <<fvars, notifications, notification_recipients, sent>>

\* The payload of the publishing request (schemas.py NotificationCreate).
NotificationData == [sender_id |-> "u1", title |-> "t", message |-> "m"]

\* service.py 16-24: INSERT the notification, commit, refresh.
StoreNotification_Commit(r) ==
    /\ nreq[r].pc = "n_store"
    /\ LET id == Cardinality(notifications) + 1
       IN  /\ notifications' = notifications \cup
                 {[id |-> id, created_at |-> id,
                   sender_id |-> NotificationData.sender_id,
                   title |-> NotificationData.title,
                   message |-> NotificationData.message]}
           /\ nreq' = [nreq EXCEPT ![r] = [@ EXCEPT !.pc = "n_links", !.nid = id]]
    /\ UNCHANGED <<fvars, nops, notification_recipients, sent>>

\* models.py 16-17: an INSERT into notification_recipients is rejected when
\* it repeats the primary key (notification_id, user_id) or names no user.
Rejected(ids) ==
    \/ \E i, j \in 1 .. Len(ids) : i # j /\ ids[i] = ids[j]
    \/ \E i \in 1 .. Len(ids) : ids[i] \notin KnownUsers

\* service.py 27-34: one row per user id, is_read = False.
NewLinks(nid, ids) ==
    {[notification_id |-> nid, user_id |-> u, is_read |-> FALSE] : u \in Range(ids)}

\* service.py 27-35 and routes.py 101-112: the INSERTs of the links and their
\* commit; a rejected INSERT raises (the transaction with the links inserted
\* so far is rolled back when the session is closed, the notification
\* committed before stays).  With the links committed the route queues the
\* broadcast as a background task and answers 200.
StoreNotification_Links(r) ==
    /\ nreq[r].pc = "n_links"
    /\ IF Rejected(nreq[r].user_ids)
       THEN /\ nreq' = [nreq EXCEPT ![r] =
                  [@ EXCEPT !.pc = "done", !.result = "error"]]
            /\ UNCHANGED notification_recipients
       ELSE /\ notification_recipients' =
                  notification_recipients
                     \cup NewLinks(nreq[r].nid, nreq[r].user_ids)
            /\ nreq' = [nreq EXCEPT ![r] =
                  [@ EXCEPT !.pc = "n_push", !.result = "ok"]]
    /\ UNCHANGED <<fvars, nops, notifications, sent>>

\* schemas.py 6-10 and 43-47: the fields of UnreadNotificationResponse.
UnreadNotificationResponseFields ==
    {"sender_id", "title", "message", "id", "created_at", "is_read"}

\* Attribute access on a pydantic model: a name that is no field raises
\* AttributeError.
HasAttr(fields, name) == name \in fields

\* Mutant of Answered: an error in the background task replaces the answer.
Answered_TaskError(result, task) == IF task = "ok" THEN result ELSE "error"

\* routes.py 111-112: the answer has been returned when the background task
\* runs; what happens in the task does not reach it.
Answered(result, task) == result

\* routes.py 68-71: broadcast_notification(response) in the background:
\* `notification.recipients` is read from an UnreadNotificationResponse.
BroadcastNotification(r) ==
    /\ nreq[r].pc = "n_push"
    /\ LET task == IF HasAttr(UnreadNotificationResponseFields, "recipients")
                   THEN "ok" ELSE "AttributeError"
       IN  /\ sent' = IF task = "ok"
                      THEN sent \cup {[notification_id |-> nreq[r].nid,
                                       user_id |-> u] :
                                         u \in Range(nreq[r].user_ids)}
                      ELSE sent
           /\ nreq' = [nreq EXCEPT ![r] =
                 [@ EXCEPT !.pc = "done", !.task = task,
                           !.result = Answered(nreq[r].result, task)]]
    /\ UNCHANGED <<fvars, nops, notifications, notification_recipients>>

\* Notification ids a request can name: the id of a row, or one that names
\* no row.
NotificationIds == {n.id : n \in notifications} \cup {Nil}

\* service.py 58-67: select the link of (notification, user); none -> 404.
MarkAsRead_Begin(r, u, nid) ==
    /\ NFree(r)
    /\ nops' = nops + 1
    /\ LET rows == LinkRows(nid, u)
           new == [IdleNReq EXCEPT !.op = "mark", !.user = u, !.nid = nid]
       IN  nreq' = [nreq EXCEPT ![r] =
             IF rows = {}
             THEN [new EXCEPT !.pc = "done", !.result = "notfound"]
             ELSE [new EXCEPT !.pc = "m_update",
                              !.is_read = (CHOOSE l \in rows : TRUE).is_read]]
    /\ UNCHANGED <<fvars, notifications, notification_recipients, sent>>

\* Mutant of Marked: the UPDATE flips is_read instead of setting it.
Marked_Toggle(nid, u) ==
    {IF l.notification_id = nid /\ l.user_id = u
        THEN [l EXCEPT !.is_read = ~ @] ELSE l :
        l \in notification_recipients}

\* Mutant of Marked: the UPDATE has no condition on the user.
Marked_AllRecipients(nid, u) ==
    {IF l.notification_id = nid THEN [l EXCEPT !.is_read = TRUE] ELSE l :
        l \in notification_recipients}

\* service.py 70-77: UPDATE notification_recipients SET is_read = true
\* WHERE notification_id = .. AND user_id = ..
Marked(nid, u) ==
    {IF l.notification_id = nid /\ l.user_id = u
        THEN [l EXCEPT !.is_read = TRUE] ELSE l :
        l \in notification_recipients}

\* service.py 70-78: the UPDATE and its commit.
MarkAsRead_Update(r) ==
    /\ nreq[r].pc = "m_update"
    /\ notification_recipients' = Marked(nreq[r].nid, nreq[r].user)
    /\ nreq' = [nreq EXCEPT ![r].pc = "m_fetch"]
    /\ UNCHANGED <<fvars, nops, notifications, sent>>

\* Mutant of MarkAnswer: a link that was read already is answered 404.
MarkAnswer_OnceOnly(found, was_read) ==
    IF found /\ ~ was_read THEN "ok" ELSE "notfound"

\* service.py 81-91 and routes.py 40-44: the notification is selected again;
\* the route answers 404 when the service returns None.
MarkAnswer(found, was_read) == IF found THEN "ok" ELSE "notfound"

\* service.py 81-91, routes.py 40-44.
MarkAsRead_Fetch(r) ==
    /\ nreq[r].pc = "m_fetch"
    /\ nreq' = [nreq EXCEPT ![r] =
          [@ EXCEPT !.pc = "done",
                    !.result = MarkAnswer(\E n \in notifications :
                                             n.id = nreq[r].nid,
                                          nreq[r].is_read)]]
    /\ UNCHANGED <<fvars, nops, notifications, notification_recipients, sent>>

RECURSIVE NewestFirst(_)
\* order_by(desc(Notification.created_at)) of a set of notification rows.
NewestFirst(ns) ==
    IF ns = {} THEN <<>>
    ELSE LET n == CHOOSE x \in ns : \A y \in ns : y.created_at <= x.created_at
         IN <<n.id>> \o NewestFirst(ns \ {n})

\* service.py 40-42: the notifications joined to an unread link of the user.
UnreadRows(u) ==
    {n \in notifications :
        \E l \in LinkRows(n.id, u) : ~ l.is_read}

\* service.py 40-53: the statement asks for joinedload(Notification.recipients),
\* a collection, and the result is read with scalars().all() without
\* unique(): fetching a row raises InvalidRequestError; without rows the
\* answer is the empty list.
GetUnreadNotifications(r, u) ==
    /\ NFree(r)
    /\ nops' = nops + 1
    /\ nreq' = [nreq EXCEPT ![r] =
          [IdleNReq EXCEPT !.op = "unread", !.user = u, !.pc = "done",
                !.result = IF UnreadRows(u) = {} THEN "ok" ELSE "error",
                !.rows = <<>>]]
    /\ UNCHANGED <<fvars, notifications, notification_recipients, sent>>

NextNotif ==
    \/ \E r \in Slots, ids \in UserIdLists : CreateNotification_Begin(r, ids)
    \/ \E r \in Slots : StoreNotification_Commit(r)
    \/ \E r \in Slots : StoreNotification_Links(r)
    \/ \E r \in Slots : BroadcastNotification(r)
    \/ \E r \in Slots, u \in KnownUsers, nid \in NotificationIds :
          MarkAsRead_Begin(r, u, nid)
    \/ \E r \in Slots : MarkAsRead_Update(r)
    \/ \E r \in Slots : MarkAsRead_Fetch(r)
    \/ \E r \in Slots, u \in KnownUsers : GetUnreadNotifications(r, u)

SpecNotif == Init /\ [][NextNotif]_vars

\* ------------------------------------------------------- the storage account

\* Requests served in one behaviour of SpecAccount.
MaxAccountOps == 3

\* routes.py 181: total_space=10737418240, which is 10240 MB.
STORAGE_INFO_DEFAULT_MB == 10240

\* models.py 74: total_space is Mapped[int], an INTEGER column (32 bits).
INT4_MAX == 2147483647

\* Does a number of megabytes, in bytes, fit the INTEGER column?
FitsInteger(mb) == mb <= INT4_MAX \div MB

\* routes.py 177-195: get_user_storage; an account found is returned as it is,
\* a missing one is created when create_if_missing is set, else 404.
GetStorageInfo_Begin(r, u, create_if_missing) ==
    /\ Free(r)
    /\ nops' = nops + 1
    /\ LET rows == StorageRows(u)
           new == [IdleReq EXCEPT !.op = "info", !.user = u, !.id = nops + 1]
       IN  req' = [req EXCEPT ![r] =
             IF Cardinality(rows) > 1
             THEN [new EXCEPT !.pc = "done", !.result = "error"]
             ELSE IF rows = {}
             THEN IF create_if_missing
                  THEN [new EXCEPT !.pc = "i_create"]
                  ELSE [new EXCEPT !.pc = "done", !.result = "notfound"]
             ELSE LET s == CHOOSE x \in rows : TRUE
                  IN [new EXCEPT !.pc = "done", !.result = "ok",
                        !.sid = s.id, !.s_used = s.used_space,
                        !.s_total = s.total_space, !.s_ver = s.ver]]
    /\ UNCHANGED <<files, storage, adjusted, charged>>

\* routes.py 180-185 and services.py 161-173: create_storage with
\* total_space = 10737418240 and used_space = 0.  The value does not fit the
\* INTEGER column: the INSERT raises and no row is written.
GetStorageInfo_Create(r) ==
    /\ req[r].pc = "i_create"
    /\ IF FitsInteger(STORAGE_INFO_DEFAULT_MB)
       THEN /\ storage' = storage \cup
                  {[id |-> req[r].id, user_id |-> req[r].user,
                    total_space |-> STORAGE_INFO_DEFAULT_MB * MB,
                    used_space |-> 0, ver |-> 0]}
            /\ req' = [req EXCEPT ![r] =
                  [Finish(r, "ok") EXCEPT !.sid = req[r].id]]
       ELSE /\ UNCHANGED storage
            /\ req' = [req EXCEPT ![r] = Finish(r, "error")]
    /\ UNCHANGED <<files, nops, adjusted, charged>>

\* One user's uploads of 20 MB files named "a" and reads of the storage
\* information.
NextAccount ==
    \/ \E r \in Slots, u \in Users :
          nops < MaxAccountOps /\ CreateFile_Begin(r, u, "a", 20 * MB)
             /\ UNCHANGED nvars
    \/ \E r \in Slots : CreateFile_MkStorage(r) /\ UNCHANGED nvars
    \/ \E r \in Slots : CreateFile_Insert(r) /\ UNCHANGED nvars
    \/ \E r \in Slots : CreateFile_Refresh(r) /\ UNCHANGED nvars
    \/ \E r \in Slots : CreateFile_Update(r) /\ UNCHANGED nvars
    \/ \E r \in Slots, u \in Users, c \in BOOLEAN :
          nops < MaxAccountOps /\ GetStorageInfo_Begin(r, u, c)
             /\ UNCHANGED nvars
    \/ \E r \in Slots : GetStorageInfo_Create(r) /\ UNCHANGED nvars

SpecAccount == Init /\ [][NextAccount]_vars

\* ------------------------------------------------------------ object storage

\* Requests served in one behaviour of SpecObjects.
MaxObjectOps == 3

\* services.py 218: key = f"{user_id}/{uuid.uuid4()}/{file.filename}", as the
\* sequence of its segments (the request's fresh id stands for the uuid).
ObjectKey(u, id, nm) == <<u, id, nm>>

\* Object storage, put(key, bytes) -> url: the object is stored under the key
\* (an object already there is overwritten) and the locator returned names
\* the key, segment by segment.
PutObject(objs, key, replace) == objs \cup {key}

\* Object storage, delete(key) -> bool: the object under the key is removed,
\* if there is one.
DeleteObject(objs, key) == objs \ {key}

\* Mutant of DeleteKey: the whole locator is the key.
DeleteKey_WholeLocator(url) == url

\* services.py 132-134: key = file_url.split('/')[-1], the last segment.
DeleteKey(url) == <<url[Len(url)]>>

\* services.py 217-221: upload_and_create_file puts the object under a fresh
\* key; the put fails (raises) or succeeds.
UploadAndCreateFile_Put(r, u, nm, sz, replace) ==
    /\ Free(r)
    /\ nops' = nops + 1
    /\ \E success \in BOOLEAN :
          IF success
          THEN /\ objects' = PutObject(objects, ObjectKey(u, nops + 1, nm),
                                       replace)
               /\ req' = [req EXCEPT ![r] =
                     [IdleReq EXCEPT !.op = "create", !.pc = "up_create",
                                     !.user = u, !.id = nops + 1,
                                     !.name = nm, !.size = sz]]
          ELSE /\ UNCHANGED objects
               /\ req' = [req EXCEPT ![r] =
                     [IdleReq EXCEPT !.op = "create", !.pc = "done",
                                     !.result = "storage_error"]]
    /\ UNCHANGED <<files, storage, adjusted, charged>>

\* services.py 223-240 and 22-30: the size is measured, create_file is called
\* and reads the Storage row of the user.
UploadAndCreateFile_Create(r) ==
    /\ req[r].pc = "up_create"
    /\ LET rows == StorageRows(req[r].user)
       IN  req' = [req EXCEPT ![r] =
             IF rows = {} THEN [@ EXCEPT !.pc = "c_mkstorage"]
             ELSE IF Cardinality(rows) > 1 THEN Finish(r, "error")
             ELSE LET s == CHOOSE x \in rows : TRUE
                  IN IF NotEnoughSpace(s.used_space, req[r].size, s.total_space)
                     THEN Finish(r, "insufficient")
                     ELSE [@ EXCEPT !.pc = "c_insert", !.sid = s.id,
                                    !.s_used = s.used_space,
                                    !.s_total = s.total_space,
                                    !.s_ver = s.ver]]
    /\ UNCHANGED <<files, storage, nops, adjusted, charged, objects>>

\* services.py 132-139: delete_file asks object storage to delete the key it
\* derives from the locator of the file it loaded.
DeleteFile_S3_Object(r) ==
    /\ DeleteFile_S3(r)
    /\ objects' = IF req'[r].s3 = "deleted"
                  THEN DeleteObject(objects, DeleteKey(req[r].f_url))
                  ELSE objects

\* What the steps of SpecObjects that do not reach object storage leave alone.
noobj == <<svars, objects, stamps, clock, activity>>

\* One user's uploads of files named "a" (the route's default replace = True)
\* and deletions.
NextObjects ==
    \/ \E r \in Slots, u \in Users, sz \in Sizes :
          nops < MaxObjectOps /\ UploadAndCreateFile_Put(r, u, "a", sz, TRUE)
             /\ UNCHANGED <<svars, stamps, clock, activity>>
    \/ \E r \in Slots : UploadAndCreateFile_Create(r)
             /\ UNCHANGED <<svars, stamps, clock, activity>>
    \/ \E r \in Slots : CreateFile_MkStorage(r) /\ UNCHANGED noobj
    \/ \E r \in Slots : CreateFile_Insert(r) /\ UNCHANGED noobj
    \/ \E r \in Slots : CreateFile_Refresh(r) /\ UNCHANGED noobj
    \/ \E r \in Slots : CreateFile_Update(r) /\ UNCHANGED noobj
    \/ \E r \in Slots, u \in Users, fid \in FileIds :
          nops < MaxObjectOps /\ DeleteFile_Begin(r, u, fid)
             /\ UNCHANGED noobj
    \/ \E r \in Slots : DeleteFile_S3_Object(r)
             /\ UNCHANGED <<svars, stamps, clock, activity>>
    \/ \E r \in Slots : DeleteFile_GetStorage(r) /\ UNCHANGED noobj
    \/ \E r \in Slots : DeleteFile_Commit(r) /\ UNCHANGED noobj

SpecObjects == Init /\ [][NextObjects]_vars

\* -------------------------------------------------- creations and deletions

\* create_file and delete_file alone, in any interleaving: no update_file and
\* no update_storage.
NextQuota ==
    \/ \E r \in Slots, u \in Users, nm \in Names, sz \in Sizes :
          CreateFile_Begin(r, u, nm, sz) /\ UNCHANGED nvars
    \/ \E r \in Slots : CreateFile_MkStorage(r) /\ UNCHANGED nvars
    \/ \E r \in Slots : CreateFile_Insert(r) /\ UNCHANGED nvars
    \/ \E r \in Slots : CreateFile_Refresh(r) /\ UNCHANGED nvars
    \/ \E r \in Slots : CreateFile_Update(r) /\ UNCHANGED nvars
    \/ \E r \in Slots, u \in Users, fid \in FileIds :
          DeleteFile_Begin(r, u, fid) /\ UNCHANGED nvars
    \/ \E r \in Slots : DeleteFile_S3(r) /\ UNCHANGED nvars
    \/ \E r \in Slots : DeleteFile_GetStorage(r) /\ UNCHANGED nvars
    \/ \E r \in Slots : DeleteFile_Commit(r) /\ UNCHANGED nvars

SpecQuota == Init /\ [][NextQuota]_vars

\* ----------------------------------------------------------- recent activity

\* Requests served in one behaviour of SpecActivity.
MaxActivityOps == 3

\* routes.py 246: limit of /recent-activity, at least 1 and 10 by default.
Limits == {1, 10}

\* models.py 48-49 at the INSERT of create_file: the defaults of updated_at
\* and created_at are two calls of datetime.now(); the second returns the
\* value of the first or a later one.
CreateFile_Insert_Stamped(r) ==
    /\ CreateFile_Insert(r)
    /\ IF files' # files
       THEN \E tick \in {0, 1} :
               /\ stamps' = stamps \cup
                     {[id |-> req[r].id, updated_at |-> clock + 1,
                       created_at |-> clock + 1 + tick, modified |-> FALSE]}
               /\ clock' = clock + 1 + tick
       ELSE UNCHANGED <<stamps, clock>>

\* models.py 48 at the UPDATE of update_file: onupdate sets updated_at to
\* datetime.now() (modified is history: an UPDATE has changed the row).
UpdateFile_Commit_Stamped(r) ==
    /\ UpdateFile_Commit(r)
    /\ IF files' # files
       THEN /\ stamps' = {IF st.id = req[r].fid
                             THEN [st EXCEPT !.updated_at = clock + 1,
                                             !.modified = TRUE]
                             ELSE st : st \in stamps}
            /\ clock' = clock + 1
       ELSE UNCHANGED <<stamps, clock>>

\* services.py 362: the tag of a file in the answer.
ActionTag(st) ==
    IF st.updated_at = st.created_at THEN "uploaded" ELSE "updated"

RECURSIVE RecentFirst(_, _)
\* services.py 341-363: order_by(desc(File.updated_at)).limit(limit), each
\* file with its tag.
RecentFirst(sts, limit) ==
    IF sts = {} \/ limit = 0 THEN <<>>
    ELSE LET st == CHOOSE x \in sts : \A y \in sts : y.updated_at <= x.updated_at
         IN <<[id |-> st.id, action |-> ActionTag(st)]>>
               \o RecentFirst(sts \ {st}, limit - 1)

\* services.py 333-365: get_recent_activity.
GetRecentActivity(u, limit) ==
    /\ nops < MaxActivityOps
    /\ nops' = nops + 1
    /\ activity' = RecentFirst({st \in stamps :
                         \E f \in get_files(u) : f.id = st.id}, limit)
    /\ UNCHANGED <<files, storage, req, adjusted, charged, svars, objects,
                   stamps, clock>>

\* One user's uploads of 20 MB files, renames and reads of the recent
\* activity.
NextActivity ==
    \/ \E r \in Slots, u \in Users, nm \in Names :
          nops < MaxActivityOps /\ CreateFile_Begin(r, u, nm, 20 * MB)
             /\ UNCHANGED nvars
    \/ \E r \in Slots : CreateFile_MkStorage(r) /\ UNCHANGED nvars
    \/ \E r \in Slots : CreateFile_Insert_Stamped(r)
             /\ UNCHANGED <<svars, objects, activity>>
    \/ \E r \in Slots : CreateFile_Refresh(r) /\ UNCHANGED nvars
    \/ \E r \in Slots : CreateFile_Update(r) /\ UNCHANGED nvars
    \/ \E r \in Slots, u \in Users, fid \in FileIds, nm \in {{}} \cup {{n} : n \in Names} :
          nops < MaxActivityOps /\ UpdateFile_Begin(r, u, fid, nm)
             /\ UNCHANGED nvars
    \/ \E r \in Slots : UpdateFile_Commit_Stamped(r)
             /\ UNCHANGED <<svars, objects, activity>>
    \/ \E r \in Slots : UpdateFile_Refresh(r) /\ UNCHANGED nvars
    \/ \E u \in Users, limit \in Limits : GetRecentActivity(u, limit)

SpecActivity == Init /\ [][NextActivity]_vars

\* ------------------------------------------------------------------- properties

RECURSIVE SumSizes(_)
\* Sum of file_size over a set of file rows.
SumSizes(fs) ==
    IF fs = {} THEN 0
    ELSE LET f == CHOOSE x \in fs : TRUE
         IN f.file_size + SumSizes(fs \ {f})

\* The request served in slot r takes the step.
Steps(r) == req'[r] # req[r]

\* The row of table storage with id sid after the step.
RowAfter(sid) == {s \in storage' : s.id = sid}

\* C1: for every interleaving of concurrent create_file calls of one user,
\* used_space never exceeds total_space and creations whose sizes jointly
\* exceed the capacity never all succeed: as long as update_storage has not
\* changed the account, used_space <= total_space, and once every request has
\* returned the files recorded for the user fit total_space.
C1_ConcurrentCreatesFit ==
    ~ adjusted =>
        \A s \in storage :
            /\ s.used_space <= s.total_space
            /\ (\A r \in Slots : ~ Busy(r)) =>
                  SumSizes(get_files(s.user_id)) <= s.total_space

\* C2: after any sequence of create_file, delete_file and update_storage every
\* Storage row satisfies 0 <= used_space <= total_space.
C2_QuotaInvariant ==
    \A s \in storage : 0 <= s.used_space /\ s.used_space <= s.total_space

\* C2 (amended): the same, as long as update_storage has written no row.
C2_QuotaInvariantUnadjusted ==
    ~ adjusted =>
        \A s \in storage : 0 <= s.used_space /\ s.used_space <= s.total_space

\* A create_file and a delete_file have both committed on an account that
\* update_storage never touched, and the account is exactly full.
C2_Witness ==
    /\ ~ adjusted
    /\ \E s \in storage : s.used_space = s.total_space /\ s.ver >= 2
    /\ \E r \in Slots : req[r].op = "delete" /\ req[r].result = "ok"

\* The request in slot r is a create_file that takes the step from pc.
CreateStep(r, pc) == req[r].op = "create" /\ req[r].pc = pc /\ Steps(r)

\* create_file starts in slot r with this step.
CreateStarts(r) == nops' = nops + 1 /\ req'[r].op = "create" /\ Steps(r)

\* C3: create_file for a name not yet used succeeds exactly when
\* used_space + file_size <= total_space (equality included) and then
\* increases used_space by exactly file_size; otherwise it fails with the
\* insufficient-space error, writes no file and leaves the account unchanged.
\* (Stated for accounts update_storage has not written.)
C3_CreateChargesExactly ==
    [][~ adjusted => \A r \in Slots :
        \* the capacity check on the account found
        /\ CreateStarts(r) =>
              \A s \in StorageRows(req'[r].user) :
                 Cardinality(StorageRows(req'[r].user)) = 1 =>
                    /\ (req'[r].result = "insufficient") <=>
                          (s.used_space + req'[r].size > s.total_space)
                    /\ req'[r].result = "insufficient" =>
                          files' = files /\ storage' = storage
        \* the file is recorded only while it fits
        /\ (CreateStep(r, "c_insert") /\ files' # files) =>
              \A s \in storage :
                 s.id = req[r].sid =>
                    s.used_space + req[r].size <= s.total_space
        \* success adds exactly file_size
        /\ (CreateStep(r, "c_update") /\ req'[r].result = "ok") =>
              \A s \in storage :
                 s.id = req[r].sid =>
                    \A t \in RowAfter(s.id) :
                       /\ t.used_space = s.used_space + req[r].size
                       /\ t.total_space = s.total_space
      ]_vars

C5_RecordAndQuotaTogether ==
    ~ adjusted =>
        \A u \in Users :
            /\ get_files(u) # {} => StorageRows(u) # {}
            /\ \A s \in StorageRows(u) :
                  s.used_space = SumSizes(get_files(u))

\* The request in slot r is a delete_file that takes the step from pc.
DeleteStep(r, pc) == req[r].op = "delete" /\ req[r].pc = pc /\ Steps(r)

\* No row for this file id, and no create_file that is still to insert it.
Gone(fid) ==
    /\ \A f \in files : f.id # fid
    /\ \A r \in Slots :
          ~ (req[r].op = "create" /\ req[r].id = fid
             /\ req[r].pc \in {"c_mkstorage", "c_insert"})

\* C6: a successful delete_file decreases the caller's used_space by exactly
\* the file's recorded file_size, removes the file from get_files, and every
\* later get_file and delete_file on that id report not-found.
C6_DeleteReleasesExactly ==
    [][~ adjusted => \A r \in Slots :
        /\ (DeleteStep(r, "d_commit") /\ req'[r].result = "ok") =>
              /\ \A f \in get_file(req[r].fid, req[r].user) :
                    \A s \in StorageRows(req[r].user) :
                       \A t \in RowAfter(s.id) :
                          t.used_space = s.used_space - f.file_size
              /\ \A f \in files' : f.id # req[r].fid
        /\ \A fid \in 1 .. nops :
              /\ Gone(fid) => Gone(fid)'
              /\ (Gone(fid) /\ Steps(r) /\ nops' = nops + 1
                     /\ req'[r].op = "delete" /\ req'[r].fid = fid) =>
                    req'[r].result = "notfound"
      ]_vars

\* C7: delete_file never drives used_space below 0: its commit leaves the
\* account's used_space at 0 or above unless it does not write it, and when
\* the file is larger than the current used_space (the value delete_file
\* loaded, still current at its commit) used_space becomes 0.
C7_DeleteFloorsAtZero ==
    [][\A r \in Slots :
        DeleteStep(r, "d_commit") =>
           \A s \in StorageRows(req[r].user) :
              \A t \in RowAfter(s.id) :
                 /\ t.used_space >= 0 \/ t.used_space = s.used_space
                 /\ (s.id = req[r].sid /\ s.ver = req[r].s_ver
                       /\ req[r].f_size > s.used_space) => t.used_space = 0
      ]_vars

\* A delete_file has committed for a file larger than the used_space it had
\* loaded from a positive account, and the account is at 0.
C7_Witness ==
    \E r \in Slots :
        /\ req[r].op = "delete" /\ req[r].result = "ok"
        /\ req[r].f_size > req[r].s_used /\ req[r].s_used > 0
        /\ \E s \in storage : s.used_space = 0 /\ s.ver >= 2

\* C8: round trip: a successful create_file followed by delete_file of the
\* created file (no other write to the account from the moment create_file
\* loaded it to the commit of delete_file) restores used_space to exactly the
\* value it had before the create.
C8_RoundTrip ==
    [][\A r \in Slots :
        DeleteStep(r, "d_commit") =>
           \A c \in charged : \A s \in storage :
              (c.fid = req[r].fid /\ s.id = c.sid /\ s.id = req[r].sid
                 /\ s.ver = c.ver /\ req[r].s_ver = c.ver) =>
                 \A t \in RowAfter(s.id) : t.used_space = c.base
      ]_vars

\* C8 (amended): the round trip restores the value before the create when
\* that value was not negative, and leaves 0 when it was negative.
C8_RoundTripFloored ==
    [][\A r \in Slots :
        DeleteStep(r, "d_commit") =>
           \A c \in charged : \A s \in storage :
              (c.fid = req[r].fid /\ s.id = c.sid /\ s.id = req[r].sid
                 /\ s.ver = c.ver /\ req[r].s_ver = c.ver) =>
                 \A t \in RowAfter(s.id) :
                    t.used_space = IF c.base >= 0 THEN c.base ELSE 0
      ]_vars

\* An 80 MB file is recorded and charged; a 20 MB file was then created and
\* deleted again, nothing else wrote the account, and used_space is back at
\* 80 MB.
C8_Witness ==
    /\ ~ adjusted
    /\ nops = 3
    /\ \E f \in files : files = {f} /\ f.file_size = 80 * MB
    /\ \E s \in storage : storage = {s} /\ s.used_space = 80 * MB /\ s.ver = 3
    /\ \E r \in Slots :
          /\ req[r].op = "delete" /\ req[r].result = "ok"
          /\ req[r].f_size = 20 * MB /\ req[r].s_used = 100 * MB

\* C9: when the object-storage removal fails during delete_file, the
\* operation fails with a storage error and the file record and the owner's
\* used_space are left as before: delete_file has written nothing before the
\* removal is attempted, the failing step writes nothing and ends the request.
C9_StorageFailureChangesNothing ==
    [][\A r \in Slots :
        /\ (Steps(r) /\ nops' = nops + 1 /\ req'[r].op = "delete") =>
              files' = files /\ storage' = storage
        /\ DeleteStep(r, "d_s3") =>
              /\ req'[r].s3 \in {"deleted", "failed"}
              /\ files' = files /\ storage' = storage
              /\ req'[r].s3 = "failed" =>
                    req'[r].pc = "done" /\ req'[r].result = "storage_error"
      ]_vars

\* A delete_file was refused by the object store; the file is still recorded
\* and still charged.
C9_Witness ==
    /\ \E r \in Slots :
          /\ req[r].op = "delete" /\ req[r].s3 = "failed"
          /\ req[r].result = "storage_error"
    /\ \A r \in Slots : ~ Busy(r)
    /\ \E f \in files : \E s \in storage :
          files = {f} /\ storage = {s} /\ s.used_space = f.file_size

\* C10: after any sequence and interleaving of create_file and update_file,
\* no two file records of the same owner have the same file_name.
C10_UniqueNames ==
    \A f, g \in files :
        (f.user_id = g.user_id /\ f.file_name = g.file_name) => f.id = g.id

\* Two files of one owner are recorded, and both a create_file and a rename
\* onto a name in use have been rejected.
C10_Witness ==
    /\ Cardinality(files) = 2
    /\ \E r \in Slots : req[r].op = "rename" /\ req[r].result = "duplicate"
    /\ \E r \in Slots : req[r].op = "create" /\ req[r].result = "duplicate"

\* The user on whose behalf the request in slot r takes the step.
Actor(r) == IF nops' = nops + 1 THEN req'[r].user ELSE req[r].user

\* C11: ownership is enforced on every file operation: get_file, update_file
\* and delete_file called by a user who is not the file's owner report
\* not-found, make no call to the object store and leave the file record and
\* both users' used_space unchanged; no step of a request changes a file or an
\* account of another user.
C11_OwnershipEnforced ==
    [][\A r \in Slots :
        /\ \A f \in files : \A u \in Callers :
              u # f.user_id => get_file(f.id, u) = {}
        /\ (Steps(r) /\ nops' = nops + 1
               /\ req'[r].op \in {"delete", "rename"}
               /\ \E f \in files :
                     f.id = req'[r].fid /\ f.user_id # req'[r].user) =>
              /\ req'[r].result = "notfound" /\ req'[r].pc = "done"
              /\ req'[r].s3 = "none"
              /\ files' = files /\ storage' = storage
        /\ Steps(r) =>
              /\ {f \in files' : f.user_id # Actor(r)}
                    = {f \in files : f.user_id # Actor(r)}
              /\ {s \in storage' : s.user_id # Actor(r)}
                    = {s \in storage : s.user_id # Actor(r)}
      ]_vars

\* u1's file is recorded and charged; a delete_file and an update_file of
\* another user on its id have both reported not-found.
C11_Witness ==
    \E f \in files :
        /\ \E s \in storage :
              s.user_id = f.user_id /\ s.used_space = f.file_size
        /\ \E r, q \in Slots :
              /\ req[r].op = "delete" /\ req[r].result = "notfound"
              /\ req[r].fid = f.id /\ req[r].user # f.user_id
              /\ req[q].op = "rename" /\ req[q].result = "notfound"
              /\ req[q].fid = f.id /\ req[q].user # f.user_id

\* Why an upload cannot be stored, in the order the code looks: no file name
\* (routes.py 38), not enough space (services.py 29), name in use
\* (services.py 43/52); "none" when it can be stored.
UploadCause(r) ==
    IF req[r].name = NoName THEN "invalid"
    ELSE IF \E s \in StorageRows(req[r].user) :
               NotEnoughSpace(s.used_space, req[r].size, s.total_space)
         THEN "capacity"
    ELSE IF NameTaken(req[r].user, req[r].name, Nil) THEN "conflict"
    ELSE "none"

\* C12: the caller of the upload operation receives a distinct failure outcome
\* for each of over capacity, conflict with an existing file name and invalid
\* input: two answered uploads that fail for different ones of these reasons
\* never carry the same answer.
C12_DistinctFailures ==
    \A r, q \in Slots :
        (/\ req[r].op = "upload" /\ req[r].pc = "done"
         /\ req[q].op = "upload" /\ req[q].pc = "done"
         /\ UploadCause(r) # "none" /\ UploadCause(q) # "none"
         /\ UploadCause(r) # UploadCause(q)) =>
            req[r].result # req[q].result

\* The notification request served in slot r takes the step.
NSteps(r) == nreq'[r] # nreq[r]

\* A notification request of kind op starts in slot r with this step.
NStarts(r, op) == nops' = nops + 1 /\ nreq'[r].op = op /\ NSteps(r)

\* C13: store_notification is atomic with respect to recipient visibility: in
\* no reachable state does a notification exist with only part, or none, of
\* its requested recipient links.
C13_AtomicRecipients ==
    \A r \in Slots :
        (nreq[r].op = "send" /\ nreq[r].nid # Nil) =>
            {l.user_id : l \in LinksOf(nreq[r].nid)} = Range(nreq[r].user_ids)

\* C14: publishing a notification to a recipient set creates exactly one link
\* per recipient, all unread, and nothing else; mark_notification_as_read(n, B)
\* sets the link (n, B) to read and leaves every other link unchanged, so n
\* stays among the unread notifications of each other recipient.
C14_PublishAndMarkFrame ==
    [][\A r \in Slots :
        /\ (nreq[r].pc = "n_links" /\ nreq'[r].result = "ok") =>
              /\ notification_recipients \subseteq notification_recipients'
              /\ notification_recipients' \ notification_recipients =
                    {[notification_id |-> nreq[r].nid, user_id |-> u,
                      is_read |-> FALSE] : u \in Range(nreq[r].user_ids)}
              /\ Cardinality(notification_recipients'
                                \ notification_recipients)
                    = Len(nreq[r].user_ids)
        /\ (nreq[r].pc = "m_update" /\ NSteps(r)) =>
              /\ \A l \in notification_recipients :
                    IF l.notification_id = nreq[r].nid
                          /\ l.user_id = nreq[r].user
                    THEN [l EXCEPT !.is_read = TRUE]
                            \in notification_recipients'
                    ELSE l \in notification_recipients'
              /\ Cardinality(notification_recipients')
                    = Cardinality(notification_recipients)
              /\ \A u \in KnownUsers \ {nreq[r].user} :
                    {l \in notification_recipients' :
                        l.user_id = u /\ ~ l.is_read}
                      = {l \in notification_recipients :
                           l.user_id = u /\ ~ l.is_read}
      ]_vars

\* A notification was published to u1 and u2 and one of them has marked it
\* read: that link is read, the other is unread.
C14_Witness ==
    \E r \in Slots :
        /\ nreq[r].op = "mark" /\ nreq[r].result = "ok"
        /\ ~ nreq[r].is_read
        /\ \E l, m \in LinksOf(nreq[r].nid) :
              /\ l.user_id = nreq[r].user /\ l.is_read
              /\ m.user_id # nreq[r].user /\ ~ m.is_read

\* C15: mark_notification_as_read for a (notification, user) pair that has no
\* recipient link reports not-found and changes no link.
C15_MarkWithoutLink ==
    [][\A r \in Slots :
        (/\ NStarts(r, "mark")
         /\ ~ \E l \in notification_recipients :
                 /\ l.notification_id = nreq'[r].nid
                 /\ l.user_id = nreq'[r].user) =>
            /\ nreq'[r].result = "notfound" /\ nreq'[r].pc = "done"
            /\ notification_recipients' = notification_recipients
            /\ notifications' = notifications
      ]_vars

\* A user has asked to mark a notification that was sent to another user
\* only, and was answered not-found; the other user's link is still unread.
C15_Witness ==
    \E r \in Slots :
        /\ nreq[r].op = "mark" /\ nreq[r].result = "notfound"
        /\ LinksOf(nreq[r].nid) # {}
        /\ \A l \in LinksOf(nreq[r].nid) :
              l.user_id # nreq[r].user /\ ~ l.is_read

\* The link of (nid, u) exists and is read.
AlreadyRead(nid, u) ==
    \E l \in notification_recipients :
        l.notification_id = nid /\ l.user_id = u /\ l.is_read

C17_UnreadList ==
    [][\A r \in Slots :
        NStarts(r, "unread") =>
           /\ nreq'[r].result = "ok"
           /\ nreq'[r].rows =
                 NewestFirst({n \in notifications :
                    \E l \in notification_recipients :
                       /\ l.notification_id = n.id
                       /\ l.user_id = nreq'[r].user
                       /\ ~ l.is_read})
      ]_vars

\* C18: the outcome of create_notification is decided by the store step
\* alone: the background push, failing or not, changes neither the answer the
\* publisher was given nor the stored notification and its links.
C18_PushOffCriticalPath ==
    [][\A r \in Slots :
        /\ (nreq[r].pc = "n_links" /\ NSteps(r)) =>
              (nreq'[r].result = "ok") <=> ~ Rejected(nreq[r].user_ids)
        /\ (nreq[r].pc = "n_push" /\ NSteps(r)) =>
              /\ nreq'[r].result = nreq[r].result
              /\ nreq'[r].result = "ok"
              /\ notifications' = notifications
              /\ notification_recipients' = notification_recipients
      ]_vars

\* A create_notification was answered success, its background task has
\* failed, and the notification and its links are stored.
C18_Witness ==
    \E r \in Slots :
        /\ nreq[r].op = "send" /\ nreq[r].pc = "done"
        /\ nreq[r].task \notin {"none", "ok"} /\ nreq[r].result = "ok"
        /\ \E n \in notifications : n.id = nreq[r].nid
        /\ {l.user_id : l \in LinksOf(nreq[r].nid)} = Range(nreq[r].user_ids)

\* C19: after a notification and its links are committed, the dispatch step
\* is invoked for exactly the recipients of that notification: once the
\* background task of a create_notification has run, the connection manager
\* has been handed the event for each recipient.
C19_DispatchedToRecipients ==
    \A r \in Slots :
        (nreq[r].op = "send" /\ nreq[r].pc = "done"
           /\ nreq[r].result = "ok") =>
            \A u \in Range(nreq[r].user_ids) :
                [notification_id |-> nreq[r].nid, user_id |-> u] \in sent

\* C20: lazy account creation is idempotent with a single system default:
\* whichever operation finds the user's Storage missing and creates it
\* (create_file or the storage-info read) leaves an account with the default
\* total_space and used_space = 0 and succeeds in doing so, and no user ever
\* has more than one account.
C20_LazyAccountDefault ==
    [][\A r \in Slots :
        /\ (req[r].pc \in {"c_mkstorage", "i_create"} /\ Steps(r)) =>
              /\ storage \subseteq storage'
              /\ \E s \in storage' \ storage :
                    /\ s.user_id = req[r].user
                    /\ s.total_space = DEFAULT_STORAGE_LIMIT
                    /\ s.used_space = 0
              /\ req'[r].result # "error"
        /\ \A u \in Users : Cardinality(StorageRows(u)') <= 1
      ]_vars

\* C21: there is at most one Storage row per user in every reachable state,
\* also after two concurrent requests of the user that both found no account
\* and created one lazily.
C21_OneAccountPerUser ==
    \A u \in Users : Cardinality(StorageRows(u)) <= 1

\* C22: update_storage accepts a total_space below the current used_space
\* without error; while total_space < used_space every create_file is
\* rejected with insufficient space and writes nothing, delete_file still
\* commits, and create_file passes the capacity check again as soon as
\* used_space + file_size <= total_space.
C22_OverdrawnBlocksCreates ==
    [][\A r \in Slots :
        /\ (req[r].pc = "s_commit" /\ Steps(r)) =>
              /\ req'[r].result = "ok"
              /\ \A s \in storage : \A t \in RowAfter(s.id) :
                    \A v \in req[r].n_total :
                       s.id = req[r].sid => t.total_space = v
        /\ CreateStarts(r) =>
              \A s \in StorageRows(req'[r].user) :
                 Cardinality(StorageRows(req'[r].user)) = 1 =>
                    /\ s.total_space < s.used_space =>
                          /\ req'[r].result = "insufficient"
                          /\ files' = files /\ storage' = storage
                    /\ s.used_space + req'[r].size <= s.total_space =>
                          req'[r].pc = "c_insert"
        /\ DeleteStep(r, "d_commit") =>
              /\ req'[r].result = "ok"
              /\ \A f \in files' : f.id # req[r].fid
      ]_vars

\* update_storage has set total_space below used_space and was answered
\* success; a create_file that came afterwards was rejected.
C22_Witness ==
    /\ \E s \in storage : storage = {s} /\ s.total_space < s.used_space
    /\ \E r, q \in Slots :
          /\ req[r].op = "storage" /\ req[r].result = "ok"
          /\ req[q].op = "create" /\ req[q].result = "insufficient"

\* C23: update_file changes only the file's name: no step of it changes a
\* Storage row, the number of files, or the size, locator or owner of any
\* file; a rename (to a name other than the one the file was loaded with)
\* onto a name used by another file of the owner fails with the
\* duplicate-name error and leaves every file as it is.
C23_RenameFrame ==
    [][\A r \in Slots :
        /\ ((req[r].op = "rename" \/ req'[r].op = "rename") /\ Steps(r)) =>
              /\ storage' = storage
              /\ Cardinality(files') = Cardinality(files)
              /\ \A f \in files :
                    IF f.id = req[r].fid /\ req[r].op = "rename"
                    THEN \E g \in files' :
                            g = [f EXCEPT !.file_name = g.file_name]
                    ELSE f \in files'
        /\ (req[r].op = "rename" /\ req[r].pc = "u_commit" /\ Steps(r)
               /\ req[r].name # req[r].f_name
               /\ (\E f \in files : f.id = req[r].fid)
               /\ \E g \in files :
                     /\ g.user_id = req[r].user /\ g.id # req[r].fid
                     /\ g.file_name = req[r].name) =>
              /\ req'[r].result = "duplicate"
              /\ files' = files
      ]_vars

\* Of two files of one owner one was renamed with success and a rename onto
\* a name in use was rejected; the account is charged for both files.
C23_Witness ==
    /\ Cardinality(files) = 2
    /\ \E r, q \in Slots :
          /\ req[r].op = "rename" /\ req[r].result = "duplicate"
          /\ req[q].op = "rename" /\ req[q].result = "ok"
    /\ \E s \in storage : storage = {s} /\ s.used_space = SumSizes(files)

\* C24: uploading (replace = True) a file whose name already exists for the
\* user replaces the existing file: when the capacity check has passed and
\* the record is written, exactly one record with that name exists for the
\* user afterwards and it carries the new size and the new locator.
C24_UploadReplaces ==
    [][\A r \in Slots :
        (CreateStep(r, "c_insert")
           /\ \E f \in files :
                 f.user_id = req[r].user /\ f.file_name = req[r].name) =>
            /\ \E g \in files' :
                  /\ g.user_id = req[r].user /\ g.file_name = req[r].name
                  /\ g.file_size = req[r].size
                  /\ g.file_url = ObjectKey(req[r].user, req[r].id, req[r].name)
            /\ Cardinality({g \in files' :
                   g.user_id = req[r].user /\ g.file_name = req[r].name}) = 1
      ]_vars

C26_DeleteRemovesUploadedObject ==
    [][\A r \in Slots :
        (DeleteStep(r, "d_s3") /\ req'[r].s3 = "deleted") =>
            objects' = objects \ {req[r].f_url}
      ]_vars

\* C27: get_recent_activity tags a file 'uploaded' exactly when it has been
\* created and never modified since, and 'updated' once it has been renamed;
\* in particular a freshly created file is tagged 'uploaded'.
C27_UploadedUntilModified ==
    [][(nops' = nops + 1 /\ req' = req) =>
          \A i \in 1 .. Len(activity') :
             \A st \in stamps :
                st.id = activity'[i].id =>
                   /\ activity'[i].action \in {"uploaded", "updated"}
                   /\ (activity'[i].action = "uploaded") <=> ~ st.modified
      ]_vars

\* C28: without update_storage, once every create_file and delete_file of a
\* user has finished, however they were interleaved, the used_space of the
\* user's account is the sum of file_size over the user's recorded files.
C28_UsedIsSumAtRest ==
    (\A r \in Slots : ~ Busy(r)) =>
        \A s \in storage :
            s.used_space = SumSizes({f \in files : f.user_id = s.user_id})

\* C29: every file and quota operation performed for a user (create_file with
\* its lazy account creation, update_file, delete_file, update_storage)
\* leaves the file records and the total_space and used_space of the Storage
\* of every other user unchanged.
C29_OtherUsersUntouched ==
    [][\A r \in Slots : \A y \in Callers :
          (Steps(r) /\ y # Actor(r)) =>
             /\ {f \in files' : f.user_id = y} = {f \in files : f.user_id = y}
             /\ {<<s.id, s.total_space, s.used_space>> :
                     s \in {x \in storage' : x.user_id = y}}
                  = {<<s.id, s.total_space, s.used_space>> :
                     s \in {x \in storage : x.user_id = y}}
      ]_vars

\* Both users have a recorded and charged file, and an update_storage of one
\* of them has set its total_space to 50 MB.
C29_Witness ==
    \E x, y \in Callers :
        /\ x # y
        /\ \E f \in files : f.user_id = x
        /\ \E f \in files : f.user_id = y
        /\ \E s \in storage :
              s.user_id = y /\ s.used_space = 20 * MB
                 /\ s.total_space = DEFAULT_STORAGE_LIMIT
        /\ \E s \in storage :
              s.user_id = x /\ s.used_space = 20 * MB
                 /\ s.total_space = 50 * MB
        /\ \E r \in Slots : req[r].op = "storage" /\ req[r].result = "ok"

\* The operation of the request in slot r that takes the step.
NOp(r) == IF nops' = nops + 1 THEN nreq'[r].op ELSE nreq[r].op

\* C30: read state is monotonic and a published notification is immutable: a
\* recipient link that is read never becomes unread again, and no step of a
\* mark-read or list operation changes a notification's sender, title or
\* message or the set of its recipient links.
C30_ReadMonotonicAndImmutable ==
    [][/\ \A l \in notification_recipients :
             l.is_read =>
                /\ l \in notification_recipients'
                /\ \A m \in notification_recipients' :
                      (m.notification_id = l.notification_id
                          /\ m.user_id = l.user_id) => m.is_read
       /\ \A r \in Slots :
             (NSteps(r) /\ NOp(r) \in {"mark", "unread"}) =>
                /\ notifications' = notifications
                /\ {<<l.notification_id, l.user_id>> :
                        l \in notification_recipients'}
                     = {<<l.notification_id, l.user_id>> :
                        l \in notification_recipients}
                /\ Cardinality(notification_recipients')
                     = Cardinality(notification_recipients)
      ]_vars

\* A link was read, has been marked again and its recipient has listed the
\* unread notifications since; the other recipient's link is still unread.
C30_Witness ==
    \E l, m \in notification_recipients : \E r, q \in Slots :
        /\ l.is_read /\ ~ m.is_read
        /\ m.notification_id = l.notification_id
        /\ \E n \in notifications :
              n.id = l.notification_id /\ n.title = NotificationData.title
        /\ nreq[r].op = "mark" /\ nreq[r].pc = "done" /\ nreq[r].is_read
        /\ nreq[r].nid = l.notification_id /\ nreq[r].user = l.user_id
        /\ nreq[q].op = "unread" /\ nreq[q].pc = "done"
        /\ nreq[q].user = l.user_id

====
